---- MODULE Spec2Model ----
(***************************************************************************)
(* Model of backend/server.py: the session-based authentication and        *)
(* authorization layer (users, sessions, posts collections and the HTTP    *)
(* handlers that read and write them).                                     *)
(*                                                                         *)
(* Every handler is one atomic action: the resolve of the session cookie   *)
(* (with its lazy-expiry delete), the guard, and all store writes.         *)
(* uuid4 values are modelled as fresh counters, the wall clock as `now`    *)
(* (in hours), bcrypt as an injective salted transform.                    *)
(***************************************************************************)
EXTENDS Integers, FiniteSets, Sequences, TLC

\* ---------------------------------------------------------------- bounds
MaxUserId == 3          \* user ids handed out by uuid4 in one run
MaxToken  == 2          \* session ids handed out by uuid4 in one run
MaxPostId == 1          \* post ids handed out by uuid4 in one run
MaxTime   == 48         \* the clock stops advancing here (hours)
MaxInFlight == 2        \* requests suspended at an await at the same time
MaxStarted  == 4        \* requests suspended at an await in one run

\* ------------------------------------------------------ program constants
SESSION_EXPIRY_HOURS == 24

\* ------------------------------------------------------------ input sets
Usernames == {"admin", "alice"}
Passwords == {"admin", "pw123"}
Salts     == {1}
Contents  == {<<"a", "B">>}
Queries   == {<<"b">>, <<"b", "a">>}

UserIds == 1..MaxUserId
Tokens  == 1..MaxToken
PostIds == 1..MaxPostId

\* Optional[str] = Cookie(None): no cookie, the empty string, or a token.
NoCookie    == 0 - 1
EmptyCookie == 0
Cookies     == {NoCookie, EmptyCookie} \cup Tokens

\* Python's None for an optional document.
None == [none |-> TRUE]

VARIABLES
    users,      \* db.users: set of user documents
    sessions,   \* db.sessions: set of session documents
    posts,      \* db.posts: set of post documents
    now,        \* datetime.now(timezone.utc), in hours
    nextUserId, \* next uuid4 for a user
    nextToken,  \* next uuid4 for a session
    nextPostId, \* next uuid4 for a post
    plain,      \* history: the plaintext last given for each stored user
    deleted,    \* history: id and username of every user removed by delete_user
    last,       \* the request being answered and its response, Idle once the
                \* client has read it
    inflight,   \* the requests suspended at an await, by request slot
    verified,   \* history: the hash each stored session's login verified
    started     \* number of requests that have been suspended so far

vars == <<users, sessions, posts, now, nextUserId, nextToken, nextPostId,
          plain, deleted, last, inflight, verified, started>>

\* ------------------------------------------------------- helper functions
\* bcrypt: one-way and injective in (password, salt); the salt is embedded
\* in the hash.
bcrypt(password, salt) == [salt |-> salt, digest |-> password]

hash_password(password, salt) == bcrypt(password, salt)

\* A verify that never compares the digest.
verify_password_AcceptAll(password, hashed) == hashed.salt \in Salts

verify_password(password, hashed) == bcrypt(password, hashed.salt) = hashed

\* find_one on a collection: the first matching document in insertion
\* order (ids grow with insertion), or None.
FirstById(M) == IF M = {} THEN None ELSE CHOOSE d \in M : \A e \in M : d.id <= e.id

find_user_by_username(username) == FirstById({u \in users : u.username = username})

find_user_by_id(user_id) == FirstById({u \in users : u.id = user_id})

\* a projection that returns the stored document whole
PublicUser_Whole(u) == u

\* projection {"_id": 0, "password": 0}
PublicUser(u) ==
    IF u = None THEN None
    ELSE [id |-> u.id, username |-> u.username, is_admin |-> u.is_admin,
          created_at |-> u.created_at]

find_session(session_id) ==
    LET M == {s \in sessions : s.session_id = session_id}
    IN  IF M = {} THEN None ELSE CHOOSE s \in M : TRUE

\* The expiry comparison the wrong way round.
ResolveUser_Inverted(session_id) ==
    IF session_id \in {NoCookie, EmptyCookie} THEN None
    ELSE LET session == find_session(session_id)
         IN  IF session = None THEN None
             ELSE IF session.expires_at > now THEN None
             ELSE PublicUser(find_user_by_id(session.user_id))

\* No expiry comparison at all.
ResolveUser_NoExpiry(session_id) ==
    IF session_id \in {NoCookie, EmptyCookie} THEN None
    ELSE LET session == find_session(session_id)
         IN  IF session = None THEN None
             ELSE PublicUser(find_user_by_id(session.user_id))

\* a resolve that trusts the session when the user lookup finds nobody
ResolveUser_FromSession(session_id) ==
    IF session_id \in {NoCookie, EmptyCookie} THEN None
    ELSE LET session == find_session(session_id)
         IN  IF session = None THEN None
             ELSE IF session.expires_at < now THEN None
             ELSE IF find_user_by_id(session.user_id) = None
             THEN [id |-> session.user_id, username |-> "", is_admin |-> FALSE,
                   created_at |-> session.created_at]
             ELSE PublicUser(find_user_by_id(session.user_id))

\* get_user_from_session: the identity it returns ...
ResolveUser(session_id) ==
    IF session_id \in {NoCookie, EmptyCookie} THEN None
    ELSE LET session == find_session(session_id)
         IN  IF session = None THEN None
             ELSE IF session.expires_at < now THEN None
             ELSE PublicUser(find_user_by_id(session.user_id))

\* ... and the session store it leaves behind (lazy expiry).
ResolveSessions(session_id) ==
    IF session_id \in {NoCookie, EmptyCookie} THEN sessions
    ELSE LET session == find_session(session_id)
         IN  IF session = None THEN sessions
             ELSE IF session.expires_at < now
                  THEN {s \in sessions : s.session_id # session_id}
             ELSE sessions

\* A guard that only asks for a logged-in caller.
AdminDenied_AnyUser(user) == user = None

\* The guard of the admin-only handlers: `not user or not user.get('is_admin')`.
AdminDenied(user) == user = None \/ ~user.is_admin

\* The guard of the handlers that need a logged-in caller: `not user`.
NotLoggedIn(user) == user = None

\* a login that tells an unknown username (404) from a wrong secret (401)
LoginStatus_NotFound(username, password) ==
    LET user == find_user_by_username(username)
    IN  IF user = None THEN 404
        ELSE IF ~verify_password(password, user.password) THEN 401 ELSE 200

\* login's credential check: 401 or 200.
LoginStatus(username, password) ==
    LET user == find_user_by_username(username)
    IN  IF user = None \/ ~verify_password(password, user.password) THEN 401 ELSE 200

\* A delete that reports success and removes nothing.
users_delete_one_Noop(user_id) == users

\* db.users.delete_one({"id": user_id})
users_delete_one(user_id) == {u \in users : u.id # user_id}

\* An update that matches the document and writes nothing.
users_set_password_Noop(user_id, hashed) == users

\* an update_one that also sets is_admin on the target
users_set_password_Promote(user_id, hashed) ==
    {IF u.id = user_id THEN [u EXCEPT !.password = hashed, !.is_admin = TRUE]
     ELSE u : u \in users}

\* db.users.update_one({"id": user_id}, {"$set": {"password": hashed}})
users_set_password(user_id, hashed) ==
    {IF u.id = user_id THEN [u EXCEPT !.password = hashed] ELSE u : u \in users}

\* A secret change or deletion that leaves the sessions in place.
sessions_delete_many_Noop(S, user_id) == S

\* a delete_many that empties the Session Store, whatever the filter
sessions_delete_many_All(S, user_id) == {}

\* db.sessions.delete_many({"user_id": user_id}) applied to the store S
sessions_delete_many(S, user_id) == {s \in S : s.user_id # user_id}

\* a delete_one that removes every session, whatever the filter
sessions_delete_one_All(S, session_id) == {}

\* db.sessions.delete_one({"session_id": session_id}) applied to collection S
sessions_delete_one(S, session_id) == {s \in S : s.session_id # session_id}

\* db.posts.delete_many({"author_id": user_id})
posts_delete_many(user_id) == {q \in posts : q.author_id # user_id}

CallerId(user) == IF user = None THEN 0 ELSE user.id

\* One request and its response: the handler, the cookie sent, the user or
\* post id in the path (0 when there is none), the id the cookie resolved to (0 for
\* nobody), the status code, the session cookie set by the response, the
\* body, and the session ids removed by the handler's delete_many.
Resp(op, session_id, target, caller, status, cookie, body, revoked) ==
    [op |-> op, session_id |-> session_id, target |-> target, caller |-> caller,
     status |-> status, cookie |-> cookie, body |-> body, revoked |-> revoked]

\* The request slots of the interleaved specification, and an empty slot.
Requests == 1..MaxInFlight

Free == [pc |-> "free"]

\* No response is waiting to be read.
Idle == Resp("idle", NoCookie, 0, 0, 0, NoCookie, None, {})

\* ------------------------------------------------------------------ Init
\* The state after startup_event: create_default_admin has run on an
\* empty database.
Init ==
    /\ \E salt \in Salts :
         users = {[id |-> 1, username |-> "admin",
                   password |-> hash_password("admin", salt),
                   is_admin |-> TRUE, created_at |-> 0]}
    /\ sessions = {}
    /\ posts = {}
    /\ now = 0
    /\ nextUserId = 2
    /\ nextToken = 1
    /\ nextPostId = 1
    /\ plain = [i \in {1} |-> "admin"]
    /\ deleted = {}
    /\ last = Idle
    /\ inflight = [r \in Requests |-> Free]
    /\ verified = [t \in {} |-> None]
    /\ started = 0

\* ----------------------------------------------------------- startup
\* a startup that never finds the administrator
admin_missing_Always == TRUE

\* not await db.users.find_one({"username": "admin"})
admin_missing == find_user_by_username("admin") = None

\* startup_event at a restart of the server on the database as it stands:
\* create_default_admin inserts the administrator only when no user is
\* named "admin".
create_default_admin(salt) ==
    LET admin_user == [id |-> nextUserId, username |-> "admin",
                       password |-> hash_password("admin", salt),
                       is_admin |-> TRUE, created_at |-> now]
    IN  /\ last = Idle
        /\ IF admin_missing
           THEN /\ nextUserId <= MaxUserId
                /\ users' = users \cup {admin_user}
                /\ nextUserId' = nextUserId + 1
                /\ plain' = [i \in DOMAIN plain \cup {nextUserId} |->
                               IF i = nextUserId THEN "admin" ELSE plain[i]]
           ELSE UNCHANGED <<users, nextUserId, plain>>
        /\ last' = Resp("startup", NoCookie, 0, 0, 0, NoCookie, None, {})
        /\ UNCHANGED <<sessions, posts, now, nextToken, nextPostId, deleted,
                       inflight, verified, started>>

\* --------------------------------------------------------- auth endpoints
login(username, password) ==
    LET user == find_user_by_username(username)
    IN  /\ last = Idle
        /\ IF LoginStatus(username, password) # 200
           THEN /\ last' = Resp("login", NoCookie, 0, 0,
                                LoginStatus(username, password), NoCookie, None, {})
                /\ UNCHANGED <<sessions, nextToken>>
           ELSE /\ nextToken <= MaxToken
                /\ sessions' = sessions \cup
                      {[session_id |-> nextToken, user_id |-> user.id,
                        created_at |-> now,
                        expires_at |-> now + SESSION_EXPIRY_HOURS]}
                /\ nextToken' = nextToken + 1
                /\ last' = Resp("login", NoCookie, 0, 0, 200, nextToken,
                                [id |-> user.id, username |-> user.username,
                                 is_admin |-> user.is_admin], {})
        /\ UNCHANGED <<users, posts, now, nextUserId, nextPostId, plain, deleted,
                       inflight, verified, started>>

logout(session_id) ==
    /\ last = Idle
    /\ sessions' = IF session_id \in {NoCookie, EmptyCookie} THEN sessions
                   ELSE sessions_delete_one(sessions, session_id)
    /\ last' = Resp("logout", session_id, 0, 0, 200, NoCookie, None, {})
    /\ UNCHANGED <<users, posts, now, nextUserId, nextToken, nextPostId,
                   plain, deleted, inflight, verified, started>>

get_current_user(session_id) ==
    LET user == ResolveUser(session_id)
    IN  /\ last = Idle
        /\ sessions' = ResolveSessions(session_id)
        /\ last' = IF NotLoggedIn(user)
                   THEN Resp("get_current_user", session_id, 0, 0, 401, NoCookie, None, {})
                   ELSE Resp("get_current_user", session_id, 0, user.id, 200, NoCookie,
                             user, {})
        /\ UNCHANGED <<users, posts, now, nextUserId, nextToken, nextPostId,
                       plain, deleted, inflight, verified, started>>

\* ------------------------------------- user management endpoints (admin)
get_users(session_id) ==
    LET user == ResolveUser(session_id)
    IN  /\ last = Idle
        /\ sessions' = ResolveSessions(session_id)
        /\ last' = IF AdminDenied(user)
                   THEN Resp("get_users", session_id, 0, CallerId(user), 403, NoCookie,
                             None, {})
                   ELSE Resp("get_users", session_id, 0, user.id, 200, NoCookie,
                             [list |-> {PublicUser(u) : u \in users}], {})
        /\ UNCHANGED <<users, posts, now, nextUserId, nextToken, nextPostId,
                       plain, deleted, inflight, verified, started>>

create_user(username, password, salt, session_id) ==
    LET user == ResolveUser(session_id)
        new_user == [id |-> nextUserId, username |-> username,
                     password |-> hash_password(password, salt),
                     is_admin |-> FALSE, created_at |-> now]
    IN  /\ last = Idle
        /\ sessions' = ResolveSessions(session_id)
        /\ IF AdminDenied(user)
           THEN /\ last' = Resp("create_user", session_id, 0, CallerId(user), 403,
                                NoCookie, None, {})
                /\ UNCHANGED <<users, nextUserId, plain>>
           ELSE IF find_user_by_username(username) # None
           THEN /\ last' = Resp("create_user", session_id, 0, user.id, 400,
                                NoCookie, None, {})
                /\ UNCHANGED <<users, nextUserId, plain>>
           ELSE /\ nextUserId <= MaxUserId
                /\ users' = users \cup {new_user}
                /\ nextUserId' = nextUserId + 1
                /\ plain' = [i \in DOMAIN plain \cup {nextUserId} |->
                               IF i = nextUserId THEN password ELSE plain[i]]
                /\ last' = Resp("create_user", session_id, 0, user.id, 200,
                                NoCookie, PublicUser(new_user), {})
        /\ UNCHANGED <<posts, now, nextToken, nextPostId, deleted,
                       inflight, verified, started>>

delete_user(user_id, session_id) ==
    LET user == ResolveUser(session_id)
        target_user == find_user_by_id(user_id)
        kept == ResolveSessions(session_id)
    IN  /\ last = Idle
        /\ IF AdminDenied(user)
           THEN /\ sessions' = kept
                /\ last' = Resp("delete_user", session_id, user_id, CallerId(user), 403,
                                NoCookie, None, {})
                /\ UNCHANGED <<users, posts, plain, deleted>>
           ELSE IF target_user # None /\ target_user.username = "admin"
           THEN /\ sessions' = kept
                /\ last' = Resp("delete_user", session_id, user_id, user.id, 400,
                                NoCookie, None, {})
                /\ UNCHANGED <<users, posts, plain, deleted>>
           ELSE IF target_user = None
           THEN /\ sessions' = kept
                /\ last' = Resp("delete_user", session_id, user_id, user.id, 404,
                                NoCookie, None, {})
                /\ UNCHANGED <<users, posts, plain, deleted>>
           ELSE /\ users' = users_delete_one(user_id)
                /\ sessions' = sessions_delete_many(kept, user_id)
                /\ posts' = posts_delete_many(user_id)
                /\ plain' = [i \in DOMAIN plain \ {user_id} |-> plain[i]]
                /\ deleted' = deleted \cup
                      {[id |-> target_user.id, username |-> target_user.username]}
                /\ last' = Resp("delete_user", session_id, user_id, user.id, 200,
                                NoCookie, None,
                                {s.session_id : s \in {k \in kept : k.user_id = user_id}})
        /\ UNCHANGED <<now, nextUserId, nextToken, nextPostId,
                       inflight, verified, started>>

update_user_password(user_id, new_password, salt, session_id) ==
    LET user == ResolveUser(session_id)
        kept == ResolveSessions(session_id)
    IN  /\ last = Idle
        /\ IF AdminDenied(user)
           THEN /\ sessions' = kept
                /\ last' = Resp("update_user_password", session_id, user_id,
                                CallerId(user), 403, NoCookie, None, {})
                /\ UNCHANGED <<users, plain>>
           ELSE IF find_user_by_id(user_id) = None
           THEN /\ sessions' = kept
                /\ last' = Resp("update_user_password", session_id, user_id,
                                user.id, 404, NoCookie, None, {})
                /\ UNCHANGED <<users, plain>>
           ELSE /\ users' = users_set_password(user_id,
                                               hash_password(new_password, salt))
                /\ sessions' = sessions_delete_many(kept, user_id)
                /\ plain' = [plain EXCEPT ![user_id] = new_password]
                /\ last' = Resp("update_user_password", session_id, user_id,
                                user.id, 200, NoCookie, None,
                                {s.session_id : s \in {k \in kept : k.user_id = user_id}})
        /\ UNCHANGED <<posts, now, nextUserId, nextToken, nextPostId, deleted,
                       inflight, verified, started>>

\* --------------------------------------------------------- post endpoints
\* "$regex": q with "$options": "i" for a query without metacharacters:
\* q occurs in content, ignoring case.
Lower(ch) ==
    IF ch = "A" THEN "a" ELSE IF ch = "B" THEN "b" ELSE IF ch = "C" THEN "c" ELSE ch

RegexMatchI(q, content) ==
    \E i \in 0..(Len(content) - Len(q)) :
        \A j \in 1..Len(q) : Lower(content[i + j]) = Lower(q[j])

get_posts(session_id) ==
    LET user == ResolveUser(session_id)
    IN  /\ last = Idle
        /\ sessions' = ResolveSessions(session_id)
        /\ last' = IF NotLoggedIn(user)
                   THEN Resp("get_posts", session_id, 0, 0, 401, NoCookie, None, {})
                   ELSE Resp("get_posts", session_id, 0, user.id, 200, NoCookie,
                             [list |-> posts], {})
        /\ UNCHANGED <<users, posts, now, nextUserId, nextToken, nextPostId,
                       plain, deleted, inflight, verified, started>>

create_post(content, session_id) ==
    LET user == ResolveUser(session_id)
        new_post == [id |-> nextPostId, author_id |-> user.id,
                     author_username |-> user.username,
                     content |-> content, created_at |-> now]
    IN  /\ last = Idle
        /\ sessions' = ResolveSessions(session_id)
        /\ IF NotLoggedIn(user)
           THEN /\ last' = Resp("create_post", session_id, 0, 0, 401, NoCookie, None, {})
                /\ UNCHANGED <<posts, nextPostId>>
           ELSE /\ nextPostId <= MaxPostId
                /\ posts' = posts \cup {new_post}
                /\ nextPostId' = nextPostId + 1
                /\ last' = Resp("create_post", session_id, 0, user.id, 200, NoCookie,
                                new_post, {})
        /\ UNCHANGED <<users, now, nextUserId, nextToken, plain, deleted,
                       inflight, verified, started>>

\* a delete_post that lets every logged-in user delete every post
NotAuthorNorAdmin_Never(post, user) == FALSE

\* post['author_id'] != user['id'] and not user.get('is_admin')
NotAuthorNorAdmin(post, user) == post.author_id # user.id /\ ~user.is_admin

delete_post(post_id, session_id) ==
    LET user == ResolveUser(session_id)
        post == FirstById({q \in posts : q.id = post_id})
    IN  /\ last = Idle
        /\ sessions' = ResolveSessions(session_id)
        /\ IF NotLoggedIn(user)
           THEN /\ last' = Resp("delete_post", session_id, post_id, 0, 401, NoCookie,
                                None, {})
                /\ UNCHANGED posts
           ELSE IF post = None
           THEN /\ last' = Resp("delete_post", session_id, post_id, user.id, 404,
                                NoCookie,
                                None, {})
                /\ UNCHANGED posts
           ELSE IF NotAuthorNorAdmin(post, user)
           THEN /\ last' = Resp("delete_post", session_id, post_id, user.id, 403,
                                NoCookie,
                                None, {})
                /\ UNCHANGED posts
           ELSE /\ posts' = posts \ {post}
                /\ last' = Resp("delete_post", session_id, post_id, user.id, 200,
                                NoCookie,
                                None, {})
        /\ UNCHANGED <<users, now, nextUserId, nextToken, nextPostId, plain, deleted,
                       inflight, verified, started>>

search_posts(q, session_id) ==
    LET user == ResolveUser(session_id)
    IN  /\ last = Idle
        /\ sessions' = ResolveSessions(session_id)
        /\ last' = IF NotLoggedIn(user)
                   THEN Resp("search_posts", session_id, 0, 0, 401, NoCookie, None, {})
                   ELSE Resp("search_posts", session_id, 0, user.id, 200, NoCookie,
                             [list |-> {d \in posts : RegexMatchI(q, d.content)}], {})
        /\ UNCHANGED <<users, posts, now, nextUserId, nextToken, nextPostId,
                       plain, deleted, inflight, verified, started>>

get_user_posts(user_id, session_id) ==
    LET user == ResolveUser(session_id)
    IN  /\ last = Idle
        /\ sessions' = ResolveSessions(session_id)
        /\ last' = IF NotLoggedIn(user)
                   THEN Resp("get_user_posts", session_id, user_id, 0, 401, NoCookie,
                             None, {})
                   ELSE Resp("get_user_posts", session_id, user_id, user.id, 200,
                             NoCookie, [list |-> {d \in posts : d.author_id = user_id}],
                             {})
        /\ UNCHANGED <<users, posts, now, nextUserId, nextToken, nextPostId,
                       plain, deleted, inflight, verified, started>>

\* The client of the API (run_test) sends one request at a time and reads
\* the response before it sends the next.
ReadResponse ==
    /\ last # Idle
    /\ last' = Idle
    /\ UNCHANGED <<users, sessions, posts, now, nextUserId, nextToken, nextPostId,
                   plain, deleted, inflight, verified, started>>

\* ------------------------------------------------------------- the clock
\* The clock advances one session lifetime at a time, so that a session is
\* seen before, exactly at, and after its expiry instant.
Tick ==
    /\ last = Idle
    /\ now + SESSION_EXPIRY_HOURS <= MaxTime
    /\ now' = now + SESSION_EXPIRY_HOURS
    /\ UNCHANGED <<users, sessions, posts, nextUserId, nextToken, nextPostId,
                   plain, deleted, last, inflight, verified, started>>

Next ==
    \/ \E n \in Usernames, p \in Passwords : login(n, p)
    \/ \E c \in Cookies : logout(c)
    \/ \E c \in Cookies : get_current_user(c)
    \/ \E c \in Cookies : get_users(c)
    \/ \E n \in Usernames, p \in Passwords, salt \in Salts, c \in Cookies :
          create_user(n, p, salt, c)
    \/ \E i \in UserIds, c \in Cookies : delete_user(i, c)
    \/ \E i \in UserIds, p \in Passwords, salt \in Salts, c \in Cookies :
          update_user_password(i, p, salt, c)
    \/ \E c \in Cookies : get_posts(c)
    \/ \E t \in Contents, c \in Cookies : create_post(t, c)
    \/ \E i \in PostIds, c \in Cookies : delete_post(i, c)
    \/ \E q \in Queries, c \in Cookies : search_posts(q, c)
    \/ \E i \in UserIds, c \in Cookies : get_user_posts(i, c)
    \/ \E salt \in Salts : create_default_admin(salt)
    \/ ReadResponse
    \/ Tick

Spec == Init /\ [][Next]_vars

\* ==================================================== interleaved handlers
\* Each handler is a coroutine that may be suspended at every await. Below,
\* one action is one await of a handler together with the synchronous code
\* that follows it up to the next await or the response. A request occupies
\* a slot of inflight from its first await until it responds; a request that
\* responds at its first await never occupies one. get_user_from_session is
\* one step: user documents are never re-inserted under an old id and their
\* id, username and is_admin never change, so its two lookups in sequence
\* return what one lookup at the first or at the second instant returns.
\* The handlers interleaved here are login, create_user, delete_user,
\* update_user_password and create_post. The clock stands still in this
\* specification and no response is recorded in last.

Suspended(pc) == {r \in Requests : inflight[r].pc = pc}

\* The lowest empty slot takes the next request.
Starts(r) ==
    /\ inflight[r] = Free
    /\ \A q \in Requests : q < r => inflight[q] # Free
    /\ started < MaxStarted

Resume(r, pc) == inflight[r].pc = pc

\* The request in slot r is suspended with the given frame, for the first
\* time or again.
Suspend(r, frame) ==
    /\ inflight' = [inflight EXCEPT ![r] = frame]
    /\ started' = IF inflight[r] = Free THEN started + 1 ELSE started

\* The request in slot r responds.
Respond(r) ==
    /\ inflight' = [inflight EXCEPT ![r] = Free]
    /\ UNCHANGED started

\* The request responds at its first await.
RespondAtOnce == UNCHANGED <<inflight, started>>

StoredTokens(S) == {s.session_id : s \in S}

\* login, first await: find_one by username, then verify_password on the
\* document it returned.
login_find(r, username, password) ==
    LET user == find_user_by_username(username)
    IN  /\ Starts(r)
        /\ nextToken + Cardinality(Suspended("login_insert")) <= MaxToken
        /\ IF LoginStatus(username, password) # 200
           THEN RespondAtOnce
           ELSE Suspend(r, [pc |-> "login_insert", user |-> user])
        /\ UNCHANGED <<users, sessions, posts, now, nextUserId, nextToken,
                       nextPostId, plain, deleted, last, verified>>

\* login, second await: insert_one of the session.
login_insert(r) ==
    LET user == inflight[r].user
    IN  /\ Resume(r, "login_insert")
        /\ sessions' = sessions \cup
              {[session_id |-> nextToken, user_id |-> user.id,
                created_at |-> now,
                expires_at |-> now + SESSION_EXPIRY_HOURS]}
        /\ nextToken' = nextToken + 1
        /\ verified' = [t \in DOMAIN verified \cup {nextToken} |->
                          IF t = nextToken THEN user.password ELSE verified[t]]
        /\ Respond(r)
        /\ UNCHANGED <<users, posts, now, nextUserId, nextPostId, plain,
                       deleted, last>>

\* create_user, first await: get_user_from_session and the admin guard.
create_user_resolve(r, username, password, salt, session_id) ==
    LET user == ResolveUser(session_id)
    IN  /\ Starts(r)
        /\ nextUserId + Cardinality(Suspended("create_user_find"))
              + Cardinality(Suspended("create_user_insert")) <= MaxUserId
        /\ sessions' = ResolveSessions(session_id)
        /\ IF AdminDenied(user)
           THEN RespondAtOnce
           ELSE Suspend(r, [pc |-> "create_user_find", session_id |-> session_id,
                            username |-> username, password |-> password,
                            salt |-> salt])
        /\ UNCHANGED <<users, posts, now, nextUserId, nextToken, nextPostId,
                       plain, deleted, last, verified>>

\* create_user, second await: find_one by username.
create_user_find(r) ==
    /\ Resume(r, "create_user_find")
    /\ IF find_user_by_username(inflight[r].username) # None
       THEN Respond(r)
       ELSE Suspend(r, [inflight[r] EXCEPT !.pc = "create_user_insert"])
    /\ UNCHANGED <<users, sessions, posts, now, nextUserId, nextToken,
                   nextPostId, plain, deleted, last, verified>>

\* create_user, third await: insert_one of the user.
create_user_insert(r) ==
    LET f == inflight[r]
        new_user == [id |-> nextUserId, username |-> f.username,
                     password |-> hash_password(f.password, f.salt),
                     is_admin |-> FALSE, created_at |-> now]
    IN  /\ Resume(r, "create_user_insert")
        /\ users' = users \cup {new_user}
        /\ nextUserId' = nextUserId + 1
        /\ plain' = [i \in DOMAIN plain \cup {nextUserId} |->
                       IF i = nextUserId THEN f.password ELSE plain[i]]
        /\ Respond(r)
        /\ UNCHANGED <<sessions, posts, now, nextToken, nextPostId, deleted,
                       last, verified>>

\* delete_user, first await: get_user_from_session and the admin guard.
delete_user_resolve(r, user_id, session_id) ==
    LET user == ResolveUser(session_id)
    IN  /\ Starts(r)
        /\ sessions' = ResolveSessions(session_id)
        /\ IF AdminDenied(user)
           THEN RespondAtOnce
           ELSE Suspend(r, [pc |-> "delete_user_find", session_id |-> session_id,
                            user_id |-> user_id])
        /\ UNCHANGED <<users, posts, now, nextUserId, nextToken, nextPostId,
                       plain, deleted, last, verified>>

\* delete_user, second await: find_one of the target and the test on its
\* username.
delete_user_find(r) ==
    LET target_user == find_user_by_id(inflight[r].user_id)
    IN  /\ Resume(r, "delete_user_find")
        /\ IF target_user # None /\ target_user.username = "admin"
           THEN Respond(r)
           ELSE Suspend(r, [inflight[r] EXCEPT !.pc = "delete_user_users"])
        /\ UNCHANGED <<users, sessions, posts, now, nextUserId, nextToken,
                       nextPostId, plain, deleted, last, verified>>

\* delete_user, third await: delete_one of the user; deleted_count == 0
\* answers 404.
delete_user_users(r) ==
    LET user_id == inflight[r].user_id
        target_user == find_user_by_id(user_id)
    IN  /\ Resume(r, "delete_user_users")
        /\ IF target_user = None
           THEN /\ Respond(r)
                /\ UNCHANGED <<users, plain, deleted>>
           ELSE /\ users' = users_delete_one(user_id)
                /\ plain' = [i \in DOMAIN plain \ {user_id} |-> plain[i]]
                /\ deleted' = deleted \cup
                      {[id |-> target_user.id, username |-> target_user.username]}
                /\ Suspend(r, [inflight[r] EXCEPT !.pc = "delete_user_sessions"])
        /\ UNCHANGED <<sessions, posts, now, nextUserId, nextToken, nextPostId,
                       last, verified>>

\* delete_user, fourth await: delete_many of the target's sessions.
delete_user_sessions(r) ==
    /\ Resume(r, "delete_user_sessions")
    /\ sessions' = sessions_delete_many(sessions, inflight[r].user_id)
    /\ verified' = [t \in StoredTokens(sessions') |-> verified[t]]
    /\ Suspend(r, [inflight[r] EXCEPT !.pc = "delete_user_posts"])
    /\ UNCHANGED <<users, posts, now, nextUserId, nextToken, nextPostId,
                   plain, deleted, last>>

\* delete_user, fifth await: delete_many of the target's posts.
delete_user_posts(r) ==
    /\ Resume(r, "delete_user_posts")
    /\ posts' = posts_delete_many(inflight[r].user_id)
    /\ Respond(r)
    /\ UNCHANGED <<users, sessions, now, nextUserId, nextToken, nextPostId,
                   plain, deleted, last, verified>>

\* update_user_password, first await: get_user_from_session and the admin
\* guard; the new hash is computed before the next await.
update_user_password_resolve(r, user_id, new_password, salt, session_id) ==
    LET user == ResolveUser(session_id)
    IN  /\ Starts(r)
        /\ sessions' = ResolveSessions(session_id)
        /\ IF AdminDenied(user)
           THEN RespondAtOnce
           ELSE Suspend(r, [pc |-> "update_user_password_users",
                            session_id |-> session_id, user_id |-> user_id,
                            new_password |-> new_password,
                            hashed_password |-> hash_password(new_password, salt)])
        /\ UNCHANGED <<users, posts, now, nextUserId, nextToken, nextPostId,
                       plain, deleted, last, verified>>

\* update_user_password, second await: update_one of the hash;
\* matched_count == 0 answers 404.
update_user_password_users(r) ==
    LET f == inflight[r]
    IN  /\ Resume(r, "update_user_password_users")
        /\ IF find_user_by_id(f.user_id) = None
           THEN /\ Respond(r)
                /\ UNCHANGED <<users, plain>>
           ELSE /\ users' = users_set_password(f.user_id, f.hashed_password)
                /\ plain' = [plain EXCEPT ![f.user_id] = f.new_password]
                /\ Suspend(r, [pc |-> "update_user_password_sessions",
                               session_id |-> f.session_id,
                               user_id |-> f.user_id])
        /\ UNCHANGED <<sessions, posts, now, nextUserId, nextToken, nextPostId,
                       deleted, last, verified>>

\* update_user_password, third await: delete_many of the target's sessions.
update_user_password_sessions(r) ==
    /\ Resume(r, "update_user_password_sessions")
    /\ sessions' = sessions_delete_many(sessions, inflight[r].user_id)
    /\ verified' = [t \in StoredTokens(sessions') |-> verified[t]]
    /\ Respond(r)
    /\ UNCHANGED <<users, posts, now, nextUserId, nextToken, nextPostId,
                   plain, deleted, last>>

\* create_post, first await: get_user_from_session.
create_post_resolve(r, content, session_id) ==
    LET user == ResolveUser(session_id)
    IN  /\ Starts(r)
        /\ nextPostId + Cardinality(Suspended("create_post_insert")) <= MaxPostId
        /\ sessions' = ResolveSessions(session_id)
        /\ IF NotLoggedIn(user)
           THEN RespondAtOnce
           ELSE Suspend(r, [pc |-> "create_post_insert", session_id |-> session_id,
                            user |-> user, content |-> content])
        /\ UNCHANGED <<users, posts, now, nextUserId, nextToken, nextPostId,
                       plain, deleted, last, verified>>

\* create_post, second await: insert_one of the post.
create_post_insert(r) ==
    LET f == inflight[r]
        new_post == [id |-> nextPostId, author_id |-> f.user.id,
                     author_username |-> f.user.username,
                     content |-> f.content, created_at |-> now]
    IN  /\ Resume(r, "create_post_insert")
        /\ posts' = posts \cup {new_post}
        /\ nextPostId' = nextPostId + 1
        /\ Respond(r)
        /\ UNCHANGED <<users, sessions, now, nextUserId, nextToken, plain,
                       deleted, last, verified>>

NextInterleaved ==
    \/ \E r \in Requests, n \in Usernames, p \in Passwords : login_find(r, n, p)
    \/ \E r \in Requests : login_insert(r)
    \/ \E r \in Requests, n \in Usernames, p \in Passwords, salt \in Salts,
          c \in Cookies : create_user_resolve(r, n, p, salt, c)
    \/ \E r \in Requests : create_user_find(r)
    \/ \E r \in Requests : create_user_insert(r)
    \/ \E r \in Requests, i \in UserIds, c \in Cookies : delete_user_resolve(r, i, c)
    \/ \E r \in Requests : delete_user_find(r)
    \/ \E r \in Requests : delete_user_users(r)
    \/ \E r \in Requests : delete_user_sessions(r)
    \/ \E r \in Requests : delete_user_posts(r)
    \/ \E r \in Requests, i \in UserIds, p \in Passwords, salt \in Salts,
          c \in Cookies : update_user_password_resolve(r, i, p, salt, c)
    \/ \E r \in Requests : update_user_password_users(r)
    \/ \E r \in Requests : update_user_password_sessions(r)
    \/ \E r \in Requests, t \in Contents, c \in Cookies : create_post_resolve(r, t, c)
    \/ \E r \in Requests : create_post_insert(r)

SpecInterleaved == Init /\ [][NextInterleaved]_vars

\* ================================================================ claims
HeldPairs == {<<u.username, plain[u.id]>> : u \in users}

\* C1: login with a (username, secret) pair held by the Credential Store
\* succeeds and inserts exactly one new session owned by that user; login
\* with a held username and any other secret fails with 401 and inserts
\* nothing.
C1_LoginExactPair ==
    [][last'.op = "login" =>
         \A n \in Usernames, p \in Passwords :
            login(n, p) =>
              IF <<n, p>> \in HeldPairs
              THEN /\ last'.status = 200
                   /\ \E s \in sessions' \ sessions :
                         /\ sessions' = sessions \cup {s}
                         /\ Cardinality(sessions') = Cardinality(sessions) + 1
                         /\ s.session_id = last'.cookie
                         /\ \E u \in users : /\ u.username = n
                                             /\ plain[u.id] = p
                                             /\ s.user_id = u.id
              ELSE (\E u \in users : u.username = n) =>
                      /\ last'.status = 401
                      /\ sessions' = sessions
      ]_vars

C1_Witness ==
    /\ last.op = "login"
    /\ last.status = 200
    /\ ~last.body.is_admin
    /\ \E s \in sessions : s.session_id = last.cookie /\ s.user_id = last.body.id

\* C2: right after a successful login, resolving the token it returned
\* gives the identity login returned: same id, username and admin flag.
C2_LoginThenResolve ==
    (last.op = "login" /\ last.status = 200) =>
        LET identity == ResolveUser(last.cookie)
        IN  /\ identity # None
            /\ identity.id = last.body.id
            /\ identity.username = last.body.username
            /\ identity.is_admin = last.body.is_admin

C2_Witness ==
    /\ last.op = "login"
    /\ last.status = 200
    /\ ResolveUser(last.cookie) # None
    /\ ResolveUser(last.cookie).username = "alice"
    /\ now > 0

\* C3 (as stated): every stored session whose expiry <= now, the boundary
\* instant expiry = now included, resolves to None and is deleted by the
\* resolve.
C3_ExpiredAtBoundary ==
    \A s \in sessions :
        s.expires_at <= now =>
            /\ ResolveUser(s.session_id) = None
            /\ s \notin ResolveSessions(s.session_id)

\* C4: after a successful secret change for user u, every token issued
\* for u before the change resolves to None, however many sessions u held
\* and also when u is the administrator using their own session; and a
\* token that has left the store never comes back.
C4_SecretChangeRevokes ==
    [][/\ (last'.op = "update_user_password" /\ last'.status = 200) =>
            \A s \in sessions :
                s.user_id = last'.target => ResolveUser(s.session_id)' = None
       /\ \A t \in Tokens :
            (t < nextToken /\ find_session(t) = None) => find_session(t)' = None
      ]_vars

C4_Witness ==
    /\ last.op = "update_user_password"
    /\ last.status = 200
    /\ last.caller = last.target
    /\ last.session_id \in last.revoked
    /\ Cardinality(last.revoked) >= 2

\* C5: after a successful secret change of user u to a secret different
\* from the old one, login with the new secret succeeds, login with the
\* old secret fails with 401, and no other user's stored credential
\* changes.
C5_SecretChangeTakesEffect ==
    [][(last'.op = "update_user_password" /\ last'.status = 200) =>
         \A i \in UserIds, n \in Usernames, old \in Passwords, new \in Passwords :
            (/\ i = last'.target
             /\ n = find_user_by_id(i).username
             /\ old = plain[i]
             /\ new = plain'[i]
             /\ old # new) =>
                /\ LoginStatus(n, new)' = 200
                /\ LoginStatus(n, old)' = 401
                /\ \A u \in users : u.id # i => u \in users'
                /\ \A u \in users' : u.id # i => u \in users
      ]_vars

C5_Witness ==
    /\ last.op = "update_user_password"
    /\ last.status = 200
    /\ last.target = 1
    /\ plain[1] = "pw123"
    /\ LoginStatus("admin", "pw123") = 200
    /\ LoginStatus("admin", "admin") = 401
    /\ \E u \in users : u.id # 1

\* C6 (as stated): after a successful deleteUser(u), every later login
\* with u's username fails with 401 and every token issued for u resolves
\* to None.
C6_DeletedNeverLogsIn ==
    \A d \in deleted :
        /\ \A p \in Passwords : LoginStatus(d.username, p) = 401
        /\ \A s \in sessions : s.user_id = d.id => ResolveUser(s.session_id) = None

\* C6 (amended): after a successful deleteUser(u), u's record stays
\* absent, login with u's username fails with 401 unless a new user has
\* since been created with that username (login then authenticates that
\* new user, never u), and every token issued for u resolves to None.
C6_DeletedStaysOut ==
    \A d \in deleted :
        /\ find_user_by_id(d.id) = None
        /\ \A p \in Passwords :
              LoginStatus(d.username, p) = 200 =>
                 find_user_by_username(d.username).id # d.id
        /\ \A s \in sessions : s.user_id = d.id => ResolveUser(s.session_id) = None

C6_Witness ==
    /\ last.op = "delete_user"
    /\ last.status = 200
    /\ last.revoked # {}
    /\ \A t \in last.revoked : ResolveUser(t) = None
    /\ \E d \in deleted :
          /\ d.id = last.target
          /\ \A p \in Passwords : LoginStatus(d.username, p) = 401

\* C7 (as stated): every deletion request aimed at the user named "admin"
\* is answered 403 whoever calls, and leaves that user's record, sessions
\* and posts unchanged.
C7_AdminDeleteForbidden ==
    [][\A i \in UserIds :
         (/\ last'.op = "delete_user"
          /\ last'.target = i
          /\ find_user_by_id(i) # None
          /\ find_user_by_id(i).username = "admin") =>
            /\ last'.status = 403
            /\ users' = users
            /\ posts' = posts
            /\ {s \in sessions' : s.user_id = i} = {s \in sessions : s.user_id = i}
      ]_vars

AdminOps == {"get_users", "create_user", "delete_user", "update_user_password"}

\* C8 (as stated): an admin-level operation called with an identity that
\* resolves to None is answered 401.
C8_AdminOpsUnauthenticated401 ==
    [][\A c \in Cookies :
         (/\ last'.op \in AdminOps
          /\ last'.session_id = c
          /\ ResolveUser(c) = None) =>
            last'.status = 401
      ]_vars

\* C9: the users collection changes only in a request whose cookie
\* resolved to an identity with the admin flag; every user-management
\* request of an authenticated non-admin is answered 403 and leaves
\* users, sessions and posts unchanged.
C9_PrivilegeSeparation ==
    [][\A c \in Cookies :
         /\ (users' # users /\ last'.session_id = c) =>
               /\ last'.op \in AdminOps
               /\ ResolveUser(c) # None
               /\ ResolveUser(c).is_admin
         /\ (/\ last'.op \in AdminOps
             /\ last'.session_id = c
             /\ ResolveUser(c) # None
             /\ ~ResolveUser(c).is_admin) =>
               /\ last'.status = 403
               /\ UNCHANGED <<users, sessions, posts>>
      ]_vars

C9_Witness ==
    /\ last.op \in {"create_user", "delete_user", "update_user_password"}
    /\ last.status = 403
    /\ last.caller # 0
    /\ \E u \in users : u.id = last.caller /\ ~u.is_admin

\* The cookie is absent, empty, unknown to the store, or expired.
Unusable(c) ==
    \/ c = NoCookie
    \/ c = EmptyCookie
    \/ \A s \in sessions : s.session_id # c
    \/ \E s \in sessions : s.session_id = c /\ s.expires_at < now

AuthenticatedOps == {"get_current_user", "get_posts", "create_post", "delete_post",
                     "search_posts", "get_user_posts"}

\* C10: an operation that needs a logged-in caller, called with a cookie
\* that is absent, empty, not in the Session Store or expired, is answered
\* 401 and leaves the posts unchanged.
C10_AuthenticatedOps401 ==
    [][\A c \in Cookies :
         (/\ last'.op \in AuthenticatedOps
          /\ last'.session_id = c
          /\ Unusable(c)) =>
            /\ last'.status = 401
            /\ posts' = posts
      ]_vars

C10_Witness ==
    /\ last.op = "create_post"
    /\ last.status = 401
    /\ last.session_id \in Tokens
    /\ last.session_id < nextToken
    /\ \E t \in Tokens : t # last.session_id /\ find_session(t) # None
    /\ posts # {}

\* C11: logout always answers 200 and leaves no session under the token it
\* was given; a logout whose token is absent, empty or not in the Session
\* Store (as on the second of two calls in a row) changes nothing, and no
\* logout touches another session, the users or the posts.
C11_LogoutIdempotent ==
    [][\A c \in Cookies :
         (last'.op = "logout" /\ last'.session_id = c) =>
            /\ last'.status = 200
            /\ find_session(c)' = None
            /\ find_session(c) = None => sessions' = sessions
            /\ \A s \in sessions : s.session_id # c => s \in sessions'
            /\ sessions' \subseteq sessions
            /\ users' = users
            /\ posts' = posts
      ]_vars

\* A logout of a token that was issued and is no longer stored, while
\* another session is stored: the second of two logouts in a row.
C11_Witness ==
    /\ last.op = "logout"
    /\ last.status = 200
    /\ last.session_id \in Tokens
    /\ last.session_id < nextToken
    /\ find_session(last.session_id) = None
    /\ sessions # {}

\* C12: delete_post removes a post only when the identity the cookie
\* resolves to is the post's author or has is_admin true; a delete_post by
\* any other logged-in user on an existing post is answered 403 and the
\* post stays.
C12_DeletePostAuthorOrAdmin ==
    [][\A i \in PostIds :
         (last'.op = "delete_post" /\ last'.target = i) =>
            LET post == FirstById({q \in posts : q.id = i})
                user == find_user_by_id(last'.caller)
            IN  /\ \A q \in posts \ posts' :
                      /\ q.id = i
                      /\ user # None
                      /\ (q.author_id = user.id \/ user.is_admin)
                /\ (/\ post # None
                    /\ user # None
                    /\ post.author_id # user.id
                    /\ ~user.is_admin) =>
                       /\ last'.status = 403
                       /\ posts' = posts
      ]_vars

\* A logged-in user who is neither the author nor an administrator has asked
\* for the deletion of a stored post.
C12_Witness ==
    /\ last.op = "delete_post"
    /\ last.status = 403
    /\ \E q \in posts : q.id = last.target /\ q.author_id # last.caller
    /\ \E u \in users : u.id = last.caller /\ ~u.is_admin

IdentityOps == {"login", "get_current_user", "create_user", "get_users"}

IdentityFields == {"id", "username", "is_admin", "created_at"}

\* C13: every identity in the body returned by login, get_current_user,
\* create_user or get_users has no field besides id, username, is_admin and
\* created_at; in particular it has no password field.
C13_NoHashReturned ==
    (last.op \in IdentityOps /\ last.body # None) =>
        LET returned == IF last.op = "get_users" THEN last.body.list
                        ELSE {last.body}
        IN  \A b \in returned :
               /\ DOMAIN b \subseteq IdentityFields
               /\ "password" \notin DOMAIN b
               /\ {"id", "username", "is_admin"} \subseteq DOMAIN b

\* The list of users has been returned while two users are stored.
C13_Witness ==
    /\ last.op = "get_users"
    /\ last.status = 200
    /\ Cardinality(last.body.list) = 2
    /\ Cardinality(users) = 2

\* The response to a login that failed.
LoginRefused == Resp("login", NoCookie, 0, 0, 401, NoCookie, None, {})

\* C14: a login with a username that no user has, and a login with the
\* username of a stored user and a secret that is not that user's, get the
\* same response (status 401, no cookie, no body), and both leave the
\* Session Store unchanged.
C14_LoginFailuresAlike ==
    [][\A n \in Usernames, p \in Passwords :
         (/\ last'.op = "login"
          /\ login(n, p)
          /\ \/ \A u \in users : u.username # n
             \/ \E u \in users : u.username = n /\ <<n, p>> \notin HeldPairs) =>
                /\ last' = LoginRefused
                /\ sessions' = sessions
      ]_vars

\* A login has been refused while one of the two usernames is taken and the
\* other is not: each cause of refusal is possible in this state.
C14_Witness ==
    /\ last = LoginRefused
    /\ \E n \in Usernames : \A u \in users : u.username # n
    /\ \E n \in Usernames, p \in Passwords :
          /\ \E u \in users : u.username = n
          /\ <<n, p>> \notin HeldPairs

\* C16: in every reachable state exactly one user is named "admin", it is the
\* user inserted by the first startup and its is_admin is true; a later
\* startup leaves the users, the sessions and the posts unchanged.
C16_OneAdmin ==
    /\ [](/\ Cardinality({u \in users : u.username = "admin"}) = 1
          /\ \A u \in users : u.username = "admin" => u.id = 1 /\ u.is_admin)
    /\ [][last'.op = "startup" =>
            /\ users' = users
            /\ sessions' = sessions
            /\ posts' = posts
         ]_vars

\* The server has restarted after the administrator's secret was changed and
\* while another user exists.
C16_Witness ==
    /\ last.op = "startup"
    /\ plain[1] # "admin"
    /\ Cardinality(users) >= 2

\* The handlers that call get_user_from_session on the cookie.
ResolvingOps == AdminOps \cup AuthenticatedOps

\* C19: a session leaves the Session Store only in a logout with its own
\* token, in a request that resolves its own token after its expiry, in a
\* successful update_user_password of its owner or in a successful
\* delete_user of its owner; every other step leaves it stored.
C19_SessionFrame ==
    [][\A s \in sessions \ sessions' :
          \/ /\ last'.op = "logout"
             /\ last'.session_id = s.session_id
          \/ /\ last'.op \in ResolvingOps
             /\ last'.session_id = s.session_id
             /\ s.expires_at < now
          \/ /\ last'.op \in {"update_user_password", "delete_user"}
             /\ last'.status = 200
             /\ last'.target = s.user_id
      ]_vars

\* An administrator has changed another user's secret: that user's sessions
\* are gone and the administrator's own session still resolves.
C19_Witness ==
    /\ last.op = "update_user_password"
    /\ last.status = 200
    /\ last.target # last.caller
    /\ last.revoked # {}
    /\ ResolveUser(last.session_id) # None
    /\ ResolveUser(last.session_id).id = last.caller

\* ---------------------------------------------- claims on interleavings
\* No request is suspended at an await.
Quiet == \A r \in Requests : inflight[r] = Free

\* C15: no two stored users have the same username, also when create_user
\* requests for one username are interleaved.
C15_UniqueUsernames ==
    \A u \in users, v \in users : u.username = v.username => u = v

\* C17: once no request is in flight, every stored session of a stored user
\* was issued by a login verified against the hash that user has now: no
\* token of a login verified against an old secret resolves to the user.
C17_OldSecretTokensDie ==
    Quiet =>
       \A s \in sessions :
          LET user == find_user_by_id(s.user_id)
          IN  user # None => verified[s.session_id] = user.password

\* C18: once no request is in flight, no session and no post refers to a
\* user removed by delete_user.
C18_CascadeComplete ==
    Quiet =>
       \A d \in deleted :
          /\ \A s \in sessions : s.user_id # d.id
          /\ \A q \in posts : q.author_id # d.id

\* C20: get_user_from_session returns None for every stored session whose
\* user is not stored, and every request that gets past it carries a cookie
\* whose session and whose session's user were stored at that await.
C20_OrphanResolvesToNone ==
    /\ [](\A s \in sessions :
             find_user_by_id(s.user_id) = None => ResolveUser(s.session_id) = None)
    /\ [][\A r \in Requests :
            (/\ inflight[r] = Free
             /\ inflight'[r] # Free
             /\ inflight'[r].pc # "login_insert") =>
                LET session == find_session(inflight'[r].session_id)
                IN  /\ session # None
                    /\ find_user_by_id(session.user_id) # None
         ]_vars

\* Between two awaits of delete_user: the user is gone, a session of that
\* user is still stored and has not expired, and it resolves to nobody.
C20_Witness ==
    \E r \in Requests, s \in sessions :
       /\ inflight[r].pc = "delete_user_sessions"
       /\ inflight[r].user_id = s.user_id
       /\ s.expires_at >= now
       /\ find_user_by_id(s.user_id) = None
       /\ ResolveUser(s.session_id) = None

\* C21: no step changes the is_admin of a stored user, every user inserted
\* by create_user has is_admin false, and in every reachable state the user
\* named "admin" that startup inserted is the only one whose is_admin is
\* true.
C21_AdminFlagFixed ==
    /\ [](\A u \in users : u.is_admin <=> (u.id = 1 /\ u.username = "admin"))
    /\ [][users' # users =>
            /\ \A u \in users, v \in users' :
                  u.id = v.id => v.is_admin = u.is_admin
            /\ last'.op = "create_user" =>
                  \A v \in users' \ users : ~v.is_admin
         ]_vars

\* An administrator has changed the secret of a user that create_user
\* inserted: that user is stored with is_admin false next to the seeded
\* administrator.
C21_Witness ==
    /\ last.op = "update_user_password"
    /\ last.status = 200
    /\ \E u \in users : u.id = last.target /\ u.id # 1 /\ ~u.is_admin
    /\ \E u \in users : u.id = 1 /\ u.is_admin
====
